---- MODULE Spec2Model ----
(***************************************************************************)
(* A model of the streaming hash-tree decoder of src/src/decoder.rs.       *)
(*                                                                         *)
(* Bytes are modelled as cells.  A cell is a sequence of integers: a       *)
(* content byte b is <<b>>, the length field of the header is <<L>>, and a *)
(* digest is the length-prefixed serialisation of the cells it covers (an  *)
(* ideal, collision-free hash: two digests are equal exactly when the      *)
(* hashed cells are equal).  With one cell for the length field and one    *)
(* cell per digest the header record is 2 cells and a node record is 2     *)
(* cells; the chunk size is scaled down accordingly.                       *)
(***************************************************************************)
EXTENDS Integers, Sequences, FiniteSets, TLC

\* ---------------------------------------------------------------- bounds

\* Longest content the model encodes.
MaxLen == 5

\* The values a content byte takes.
Bytes == {0, 1}

\* ------------------------------------------------------------- constants

\* ::CHUNK_SIZE, ::HEADER_SIZE, ::NODE_SIZE of the crate root, in cells.
CHUNK_SIZE == 2

HEADER_SIZE == 2

NODE_SIZE == 2

\* ------------------------------------------------ digests and the encoder

RECURSIVE Flatten(_)
\* The cells of a record, each prefixed by its length, one after the other.
Flatten(cells) ==
  IF cells = <<>> THEN <<>>
  ELSE <<Len(Head(cells))>> \o Head(cells) \o Flatten(Tail(cells))

\* The digest of a sequence of cells.
Hash(cells) == <<Len(cells)>> \o Flatten(cells)

\* Unverified::read_verify: a slice of exactly len verified cells, or
\* ShortInput (fewer than len supplied), or HashMismatch.
read_verify(input, len, digest) ==
  IF Len(input) < len THEN [res |-> "ShortInput", bytes |-> <<>>]
  ELSE IF Hash(SubSeq(input, 1, len)) # digest
       THEN [res |-> "HashMismatch", bytes |-> <<>>]
       ELSE [res |-> "Ok", bytes |-> SubSeq(input, 1, len)]

RECURSIVE LargestPow2Below(_, _)
\* The largest p * 2^k strictly below n (p a power of two, p < n).
LargestPow2Below(p, n) == IF 2 * p < n THEN LargestPow2Below(2 * p, n) ELSE p

\* The length of the left child of a region of len > CHUNK_SIZE: the largest
\* power-of-two number of chunks that leaves the right child non-empty.
left_len(len) == CHUNK_SIZE * LargestPow2Below(1, (len + CHUNK_SIZE - 1) \div CHUNK_SIZE)

RECURSIVE encoded_len(_)
\* The number of encoded cells of a region of len content bytes.
encoded_len(len) ==
  IF len <= CHUNK_SIZE THEN len
  ELSE NODE_SIZE + encoded_len(left_len(len)) + encoded_len(len - left_len(len))

\* A content byte as a cell.
Cell(b) == <<b>>

\* A sequence of content bytes as cells.
Cells(bytes) == [i \in 1 .. Len(bytes) |-> Cell(bytes[i])]

RECURSIVE region_hash(_)
\* The digest of the region holding `bytes`: of the raw chunk cells for a
\* leaf, of the node record otherwise.
region_hash(bytes) ==
  IF Len(bytes) <= CHUNK_SIZE THEN Hash(Cells(bytes))
  ELSE LET l == left_len(Len(bytes))
       IN Hash(<<region_hash(SubSeq(bytes, 1, l)),
                 region_hash(SubSeq(bytes, l + 1, Len(bytes)))>>)

RECURSIVE encode_tree(_)
\* The encoding of a region: a leaf is its raw cells; a longer span is its
\* node record followed by the encodings of its left and right children.
encode_tree(bytes) ==
  IF Len(bytes) <= CHUNK_SIZE THEN Cells(bytes)
  ELSE LET l == left_len(Len(bytes))
           left == SubSeq(bytes, 1, l)
           right == SubSeq(bytes, l + 1, Len(bytes))
       IN <<region_hash(left), region_hash(right)>>
            \o encode_tree(left) \o encode_tree(right)

\* The header record: content length, then the root digest.
header_record(bytes) == <<<<Len(bytes)>>, region_hash(bytes)>>

\* simple::encode: (encoded, hash).
encode(bytes) ==
  [encoded |-> header_record(bytes) \o encode_tree(bytes),
   hash |-> Hash(header_record(bytes))]

\* ------------------------------------------------------- Region and Node

\* Region::len
len(r) == r.end - r.start

\* Region::contains
contains(r, pos) == r.start <= pos /\ pos < r.end

\* Node::contains: the combined span of the two children.
node_contains(node, pos) == node.left.start <= pos /\ pos < node.right.end

\* Region::from_header_bytes, on verified header cells.
from_header_bytes(bytes) ==
  [start |-> 0, end |-> bytes[1][1], encoded_offset |-> HEADER_SIZE, hash |-> bytes[2]]

\* Region::parse_node, on verified node cells: the two children of `region`,
\* or MalformedNode when they do not tile it.
parse_node(region, bytes) ==
  LET left == [start |-> region.start,
               end |-> region.start + left_len(len(region)),
               encoded_offset |-> region.encoded_offset + NODE_SIZE,
               hash |-> bytes[1]]
      right == [start |-> left.end,
                end |-> region.end,
                encoded_offset |-> left.encoded_offset + encoded_len(len(left)),
                hash |-> bytes[2]]
  IN IF left.start < left.end /\ right.start < right.end
     THEN [res |-> "Ok", node |-> <<[left |-> left, right |-> right]>>]
     ELSE [res |-> "MalformedNode", node |-> <<>>]

\* Placeholder region of the states that carry none.
NoRegion == [start |-> 0, end |-> 0, encoded_offset |-> 0, hash |-> <<>>]

\* ----------------------------------------------------------- the decoder

\* Option<T>: <<>> is None, <<x>> is Some(x).
None == <<>>

Some(x) == <<x>>

\* state with the leaf test off by one: a full chunk is taken for a node.
state_lt(hdr, pos, stk) ==
  IF hdr = None THEN [kind |-> "NoHeader", region |-> NoRegion]
  ELSE IF pos >= hdr[1].end THEN [kind |-> "Eof", region |-> NoRegion]
  ELSE LET current_region ==
             IF stk # <<>>
             THEN LET node == stk[Len(stk)]
                  IN IF contains(node.left, pos) THEN node.left ELSE node.right
             ELSE hdr[1]
       IN IF len(current_region) < CHUNK_SIZE
          THEN [kind |-> "Chunk", region |-> current_region]
          ELSE [kind |-> "Node", region |-> current_region]

\* state with the end test off by one: position = header.end is not Eof.
state_eof_gt(hdr, pos, stk) ==
  IF hdr = None THEN [kind |-> "NoHeader", region |-> NoRegion]
  ELSE IF pos > hdr[1].end THEN [kind |-> "Eof", region |-> NoRegion]
  ELSE LET current_region ==
             IF stk # <<>>
             THEN LET node == stk[Len(stk)]
                  IN IF contains(node.left, pos) THEN node.left ELSE node.right
             ELSE hdr[1]
       IN IF len(current_region) <= CHUNK_SIZE
          THEN [kind |-> "Chunk", region |-> current_region]
          ELSE [kind |-> "Node", region |-> current_region]

\* state that always resolves to the left child of the top node.
state_left(hdr, pos, stk) ==
  IF hdr = None THEN [kind |-> "NoHeader", region |-> NoRegion]
  ELSE IF pos >= hdr[1].end THEN [kind |-> "Eof", region |-> NoRegion]
  ELSE LET current_region == IF stk # <<>> THEN stk[Len(stk)].left ELSE hdr[1]
       IN IF len(current_region) <= CHUNK_SIZE
          THEN [kind |-> "Chunk", region |-> current_region]
          ELSE [kind |-> "Node", region |-> current_region]

\* Decoder::state
state(hdr, pos, stk) ==
  IF hdr = None THEN [kind |-> "NoHeader", region |-> NoRegion]
  ELSE IF pos >= hdr[1].end THEN [kind |-> "Eof", region |-> NoRegion]
  ELSE LET current_region ==
             IF stk # <<>>
             THEN LET node == stk[Len(stk)]
                  IN IF contains(node.left, pos) THEN node.left ELSE node.right
             ELSE hdr[1]
       IN IF len(current_region) <= CHUNK_SIZE
          THEN [kind |-> "Chunk", region |-> current_region]
          ELSE [kind |-> "Node", region |-> current_region]

RECURSIVE pop_uncontaining(_, _)
\* The loop of Decoder::seek: pop while the top node does not contain pos.
pop_uncontaining(stk, pos) ==
  IF stk = <<>> THEN stk
  ELSE IF node_contains(stk[Len(stk)], pos) THEN stk
  ELSE pop_uncontaining(SubSeq(stk, 1, Len(stk) - 1), pos)

\* seek without the loop that pops the nodes not containing the position.
seek_nopop(hdr, stk, pos) == [position |-> pos, stack |-> stk]

\* seek that empties the stack instead of popping down to a containing node.
seek_clear(hdr, stk, pos) ==
  LET header_end == IF hdr = None THEN 0 ELSE hdr[1].end
  IN IF pos >= header_end
     THEN [position |-> pos, stack |-> stk]
     ELSE [position |-> pos, stack |-> <<>>]

\* seek with the end test off by one: position = header.end is not Eof.
seek_gt(hdr, stk, pos) ==
  LET header_end == IF hdr = None THEN 0 ELSE hdr[1].end
  IN IF pos > header_end
     THEN [position |-> pos, stack |-> stk]
     ELSE [position |-> pos, stack |-> pop_uncontaining(stk, pos)]

\* Decoder::seek: the position and stack it leaves.
seek(hdr, stk, pos) ==
  LET header_end == IF hdr = None THEN 0 ELSE hdr[1].end
  IN IF pos >= header_end
     THEN [position |-> pos, stack |-> stk]
     ELSE [position |-> pos, stack |-> pop_uncontaining(stk, pos)]

\* Decoder::needed
needed(hdr, pos, stk) ==
  LET s == state(hdr, pos, stk)
  IN CASE s.kind = "NoHeader" -> [offset |-> 0, size |-> HEADER_SIZE]
       [] s.kind = "Eof" -> [offset |-> 0, size |-> 0]
       [] s.kind = "Chunk" -> [offset |-> s.region.encoded_offset, size |-> len(s.region)]
       [] s.kind = "Node" -> [offset |-> s.region.encoded_offset, size |-> NODE_SIZE]

\* What a feed that fails with `res` returns: no state is changed.
Failed(res, hdr, pos, stk) ==
  [res |-> res, consumed |-> 0, output |-> None,
   header |-> hdr, position |-> pos, stack |-> stk]

\* feed_header that parses the header cells without verifying them.
feed_header_unverified(hh, hdr, pos, stk, input) ==
  IF Len(input) < HEADER_SIZE THEN Failed("ShortInput", hdr, pos, stk)
  ELSE [res |-> "Ok", consumed |-> HEADER_SIZE, output |-> None,
        header |-> Some(from_header_bytes(SubSeq(input, 1, HEADER_SIZE))),
        position |-> pos, stack |-> stk]

\* feed_header that verifies the header cells and does not store the header.
feed_header_nostore(hh, hdr, pos, stk, input) ==
  LET v == read_verify(input, HEADER_SIZE, hh)
  IN IF v.res # "Ok" THEN Failed(v.res, hdr, pos, stk)
     ELSE [res |-> "Ok", consumed |-> HEADER_SIZE, output |-> None,
           header |-> hdr, position |-> pos, stack |-> stk]

\* Decoder::feed_header
feed_header(hh, hdr, pos, stk, input) ==
  LET v == read_verify(input, HEADER_SIZE, hh)
  IN IF v.res # "Ok" THEN Failed(v.res, hdr, pos, stk)
     ELSE [res |-> "Ok", consumed |-> HEADER_SIZE, output |-> None,
           header |-> Some(from_header_bytes(v.bytes)),
           position |-> pos, stack |-> stk]

\* feed_chunk that returns the chunk cells without verifying them.
feed_chunk_unverified(hdr, pos, stk, input, region) ==
  IF Len(input) < len(region) THEN Failed("ShortInput", hdr, pos, stk)
  ELSE LET bytes == SubSeq(input, 1, len(region))
           sk == seek(hdr, stk, region.end)
       IN [res |-> "Ok", consumed |-> Len(bytes),
           output |-> Some(SubSeq(bytes, pos - region.start + 1, Len(bytes))),
           header |-> hdr, position |-> sk.position, stack |-> sk.stack]

\* feed_chunk that leaves out seek(region.end).
feed_chunk_noadvance(hdr, pos, stk, input, region) ==
  LET v == read_verify(input, len(region), region.hash)
  IN IF v.res # "Ok" THEN Failed(v.res, hdr, pos, stk)
     ELSE [res |-> "Ok", consumed |-> Len(v.bytes),
           output |-> Some(SubSeq(v.bytes, pos - region.start + 1, Len(v.bytes))),
           header |-> hdr, position |-> pos, stack |-> stk]

\* feed_chunk that returns the whole chunk, whatever the chunk offset.
feed_chunk_whole(hdr, pos, stk, input, region) ==
  LET v == read_verify(input, len(region), region.hash)
  IN IF v.res # "Ok" THEN Failed(v.res, hdr, pos, stk)
     ELSE LET sk == seek(hdr, stk, region.end)
          IN [res |-> "Ok", consumed |-> Len(v.bytes), output |-> Some(v.bytes),
              header |-> hdr, position |-> sk.position, stack |-> sk.stack]

\* feed_chunk that seeks to the end of the region before reading it.
feed_chunk_seekfirst(hdr, pos, stk, input, region) ==
  LET v == read_verify(input, len(region), region.hash)
      sk == seek(hdr, stk, region.end)
  IN IF v.res # "Ok"
     THEN [Failed(v.res, hdr, pos, stk) EXCEPT !.position = sk.position,
                                                !.stack = sk.stack]
     ELSE [res |-> "Ok", consumed |-> Len(v.bytes),
           output |-> Some(SubSeq(v.bytes, pos - region.start + 1, Len(v.bytes))),
           header |-> hdr, position |-> sk.position, stack |-> sk.stack]

\* feed_chunk that reports the length of the returned tail as consumed.
feed_chunk_consumed_ret(hdr, pos, stk, input, region) ==
  LET v == read_verify(input, len(region), region.hash)
  IN IF v.res # "Ok" THEN Failed(v.res, hdr, pos, stk)
     ELSE LET ret == SubSeq(v.bytes, pos - region.start + 1, Len(v.bytes))
              sk == seek(hdr, stk, region.end)
          IN [res |-> "Ok", consumed |-> Len(ret), output |-> Some(ret),
              header |-> hdr, position |-> sk.position, stack |-> sk.stack]

\* feed_chunk that seeks to the start of the region instead of its end.
feed_chunk_rewind(hdr, pos, stk, input, region) ==
  LET v == read_verify(input, len(region), region.hash)
  IN IF v.res # "Ok" THEN Failed(v.res, hdr, pos, stk)
     ELSE LET sk == seek(hdr, stk, region.start)
          IN [res |-> "Ok", consumed |-> Len(v.bytes),
              output |-> Some(SubSeq(v.bytes, pos - region.start + 1, Len(v.bytes))),
              header |-> hdr, position |-> sk.position, stack |-> sk.stack]

\* feed_chunk that reports the whole buffer as consumed.
feed_chunk_consumed_input(hdr, pos, stk, input, region) ==
  LET v == read_verify(input, len(region), region.hash)
  IN IF v.res # "Ok" THEN Failed(v.res, hdr, pos, stk)
     ELSE LET sk == seek(hdr, stk, region.end)
          IN [res |-> "Ok", consumed |-> Len(input),
              output |-> Some(SubSeq(v.bytes, pos - region.start + 1, Len(v.bytes))),
              header |-> hdr, position |-> sk.position, stack |-> sk.stack]

\* Decoder::feed_chunk
feed_chunk(hdr, pos, stk, input, region) ==
  LET v == read_verify(input, len(region), region.hash)
  IN IF v.res # "Ok" THEN Failed(v.res, hdr, pos, stk)
     ELSE IF pos < region.start \/ pos - region.start > Len(v.bytes)
     THEN Failed("Panic", hdr, pos, stk)
     ELSE LET chunk_offset == pos - region.start
              ret == SubSeq(v.bytes, chunk_offset + 1, Len(v.bytes))
              sk == seek(hdr, stk, region.end)
          IN [res |-> "Ok", consumed |-> Len(v.bytes), output |-> Some(ret),
              header |-> hdr, position |-> sk.position, stack |-> sk.stack]

\* feed_node that pushes the parsed node before the cells are verified.
feed_node_pushfirst(hdr, pos, stk, input, region) ==
  IF Len(input) < NODE_SIZE THEN Failed("ShortInput", hdr, pos, stk)
  ELSE LET p == parse_node(region, SubSeq(input, 1, NODE_SIZE))
           pushed == Append(stk, p.node[1])
           v == read_verify(input, NODE_SIZE, region.hash)
       IN IF v.res # "Ok"
          THEN [Failed(v.res, hdr, pos, stk) EXCEPT !.stack = pushed]
          ELSE [res |-> "Ok", consumed |-> NODE_SIZE, output |-> None,
                header |-> hdr, position |-> pos, stack |-> pushed]

\* feed_node that parses the record against the header region.
feed_node_wrongregion(hdr, pos, stk, input, region) ==
  LET v == read_verify(input, NODE_SIZE, region.hash)
  IN IF v.res # "Ok" THEN Failed(v.res, hdr, pos, stk)
     ELSE LET p == parse_node(hdr[1], v.bytes)
          IN IF p.res # "Ok" THEN Failed(p.res, hdr, pos, stk)
             ELSE [res |-> "Ok", consumed |-> NODE_SIZE, output |-> None,
                   header |-> hdr, position |-> pos,
                   stack |-> Append(stk, p.node[1])]

\* feed_node that verifies and parses the record but does not push it.
feed_node_nopush(hdr, pos, stk, input, region) ==
  LET v == read_verify(input, NODE_SIZE, region.hash)
  IN IF v.res # "Ok" THEN Failed(v.res, hdr, pos, stk)
     ELSE LET p == parse_node(region, v.bytes)
          IN IF p.res # "Ok" THEN Failed(p.res, hdr, pos, stk)
             ELSE [res |-> "Ok", consumed |-> NODE_SIZE, output |-> None,
                   header |-> hdr, position |-> pos, stack |-> stk]

\* Decoder::feed_node
feed_node(hdr, pos, stk, input, region) ==
  LET v == read_verify(input, NODE_SIZE, region.hash)
  IN IF v.res # "Ok" THEN Failed(v.res, hdr, pos, stk)
     ELSE LET p == parse_node(region, v.bytes)
          IN IF p.res # "Ok" THEN Failed(p.res, hdr, pos, stk)
             ELSE [res |-> "Ok", consumed |-> NODE_SIZE, output |-> None,
                   header |-> hdr, position |-> pos,
                   stack |-> Append(stk, p.node[1])]

\* feed whose Eof arm reports the whole buffer as consumed.
feed_eof_consumes(hh, hdr, pos, stk, input) ==
  LET s == state(hdr, pos, stk)
  IN CASE s.kind = "NoHeader" -> feed_header(hh, hdr, pos, stk, input)
       [] s.kind = "Eof" ->
            [res |-> "Ok", consumed |-> Len(input), output |-> None,
             header |-> hdr, position |-> pos, stack |-> stk]
       [] s.kind = "Chunk" -> feed_chunk(hdr, pos, stk, input, s.region)
       [] s.kind = "Node" -> feed_node(hdr, pos, stk, input, s.region)

\* Decoder::feed
feed(hh, hdr, pos, stk, input) ==
  LET s == state(hdr, pos, stk)
  IN CASE s.kind = "NoHeader" -> feed_header(hh, hdr, pos, stk, input)
       [] s.kind = "Eof" ->
            [res |-> "Ok", consumed |-> 0, output |-> None,
             header |-> hdr, position |-> pos, stack |-> stk]
       [] s.kind = "Chunk" -> feed_chunk(hdr, pos, stk, input, s.region)
       [] s.kind = "Node" -> feed_node(hdr, pos, stk, input, s.region)

\* ------------------------------------------------- the drivers' inputs

\* A cell with its value changed.
FlipCell(c) == [c EXCEPT ![1] = c[1] + 1]

\* `cells` with cell k flipped; k = 0 leaves them alone.
Flip(cells, k) ==
  IF k \in 1 .. Len(cells) THEN [cells EXCEPT ![k] = FlipCell(cells[k])] ELSE cells

\* Every content of at most MaxLen bytes.
Contents == UNION {[1 .. n -> Bytes] : n \in 0 .. MaxLen}

\* Seek targets: every position of the longest content, and one past it.
Positions == 0 .. MaxLen + 1

\* The longest buffer the free driver feeds: one cell more than any state
\* asks for.
MaxFeed == CHUNK_SIZE + 1

\* The digests a verified record hands on: the root digest of a header
\* record, the two child digests of a node record.
RecordDigests(kind, cells) ==
  IF kind = "NoHeader" THEN {cells[2]} ELSE {cells[1], cells[2]}

\* ---------------------------------------------------------------- state

VARIABLES
  content,      \* the original content (bytes)
  stream,       \* the encoded stream the driver reads its buffers from
  flipped,      \* index of the flipped cell of stream, 0 when none
  header_hash,  \* Decoder.header_hash
  header,       \* Decoder.header
  position,     \* Decoder.position
  stack,        \* Decoder.stack
  mode,         \* which driver runs: free, exact, seek, over, ones, flip
  pc,           \* the driver's loop: run, done, failed, panic
  out,          \* the output the driver has collected
  target,       \* the seek target of the drain started by SeekDrain
  cursor,       \* start of the remaining encoded_input (over, ones)
  feed_len,     \* test_decoder_feed_by_ones' feed_len
  last,         \* the last call: its operation, the state and needed() before
                \* it, and what it returned
  trusted       \* digests reachable from header_hash through verified records

dec == <<header, position, stack>>

env == <<content, stream, flipped, header_hash>>

vars == <<content, stream, flipped, header_hash, header, position, stack,
          mode, pc, out, target, cursor, feed_len, last, trusted>>

NoCall ==
  [op |-> "none", kind |-> "NoHeader", need |-> [offset |-> 0, size |-> 0],
   res |-> "Ok", consumed |-> 0, output |-> None, verified |-> FALSE,
   anchored |-> FALSE, buflen |-> 0]

Init ==
  /\ content \in Contents
  /\ mode \in {"free", "exact", "over", "ones", "flip"}
  /\ flipped \in 0 .. HEADER_SIZE + encoded_len(MaxLen)
  /\ IF mode = "flip"
     THEN flipped \in 1 .. Len(encode(content).encoded)
     ELSE flipped = 0
  /\ stream = Flip(encode(content).encoded, flipped)
  /\ header_hash = encode(content).hash
  /\ header = None
  /\ position = 0
  /\ stack = <<>>
  /\ pc = "run"
  /\ out = <<>>
  /\ target = 0
  /\ cursor = 0
  /\ feed_len = 0
  /\ last = NoCall
  /\ trusted = {header_hash}

\* The digest the cells of the next feed are to hash to: header_hash before
\* the header is parsed, the digest of the current region after.
ExpectedDigest ==
  LET s == state(header, position, stack)
  IN IF s.kind = "NoHeader" THEN header_hash ELSE s.region.hash

\* Whether the cells the current state asks for, taken from the front of
\* `input`, hash to the expected digest.
Verifies(input) ==
  LET nd == needed(header, position, stack)
  IN /\ state(header, position, stack).kind # "Eof"
     /\ Len(input) >= nd.size
     /\ Hash(SubSeq(input, 1, nd.size)) = ExpectedDigest

\* The record of one feed call on `input`, with r what the call returned.
Call(input, r) ==
  [op |-> "feed", kind |-> state(header, position, stack).kind,
   need |-> needed(header, position, stack), res |-> r.res,
   consumed |-> r.consumed, output |-> r.output,
   verified |-> Verifies(input), anchored |-> ExpectedDigest \in trusted,
   buflen |-> Len(input)]

\* The trusted digests after a feed of `input`: a header or node record
\* that hashes to a trusted digest hands on the digests it holds.
Trust(input) ==
  LET kind == state(header, position, stack).kind
  IN IF kind \in {"NoHeader", "Node"} /\ Verifies(input) /\ ExpectedDigest \in trusted
     THEN trusted \cup RecordDigests(kind, input)
     ELSE trusted

\* One call of feed on `input`: the decoder's new state and the record of
\* the call.
DoFeed(input) ==
  LET r == feed(header_hash, header, position, stack, input)
  IN /\ header' = r.header
     /\ position' = r.position
     /\ stack' = r.stack
     /\ last' = Call(input, r)
     /\ trusted' = Trust(input)

\* ------------------------------------------------------ the free driver

\* seek(p), at any time.
Seek(p) ==
  /\ mode = "free"
  /\ LET sk == seek(header, stack, p)
     IN /\ position' = sk.position
        /\ stack' = sk.stack
  /\ last' = [NoCall EXCEPT !.op = "seek",
                            !.kind = state(header, position, stack).kind]
  /\ UNCHANGED <<env, header, mode, pc, out, target, cursor, feed_len, trusted>>

\* The buffer of n cells at offset off of the stream, cell k of it flipped.
Buffer(off, n, k) == Flip(SubSeq(stream, off + 1, off + n), k)

\* Every buffer the free driver can feed in the current state.
Buffers ==
  UNION {UNION {{Buffer(off, n, k) : k \in 0 .. n} :
                  n \in {m \in 0 .. MaxFeed : off + m <= Len(stream)}} :
           off \in 0 .. Len(stream)}

\* feed(input), at any time, on any slice of the stream, tampered or not.
Feed(off, n, k) ==
  /\ mode = "free"
  /\ off + n <= Len(stream)
  /\ k <= n
  /\ DoFeed(Buffer(off, n, k))
  /\ UNCHANGED <<env, mode, pc, out, target, cursor, feed_len>>

\* seek(p) with p <= L, after which the needed()/feed() loop drains the
\* decoder (test_decoder_seek, from any state the free driver reached).
SeekDrain(p) ==
  /\ mode = "free"
  /\ p <= Len(content)
  /\ LET sk == seek(header, stack, p)
     IN /\ position' = sk.position
        /\ stack' = sk.stack
  /\ mode' = "seek"
  /\ target' = p
  /\ out' = <<>>
  /\ last' = [NoCall EXCEPT !.op = "seek",
                            !.kind = state(header, position, stack).kind]
  /\ UNCHANGED <<env, header, pc, cursor, feed_len, trusted>>

\* ------------------------------------------- the needed()/feed() loop

\* The output collected so far, with what a call returned appended.
Collect(o, output) == IF output = None THEN o ELSE o \o output[1]

\* One turn of the loop of test_decoder and test_decoder_seek: ask needed(),
\* stop at size 0, else feed exactly encoded[offset .. offset + size].
ExactStep ==
  /\ mode \in {"exact", "seek", "flip"}
  /\ pc = "run"
  /\ LET nd == needed(header, position, stack)
         input == SubSeq(stream, nd.offset + 1, nd.offset + nd.size)
         r == feed(header_hash, header, position, stack, input)
     IN IF nd.size = 0
        THEN /\ pc' = "done"
             /\ UNCHANGED <<dec, out, last, trusted>>
        ELSE IF nd.offset + nd.size > Len(stream)
        THEN /\ pc' = "panic"
             /\ UNCHANGED <<dec, out, last, trusted>>
        ELSE /\ DoFeed(input)
             /\ pc' = IF r.res = "Ok" THEN "run" ELSE "failed"
             /\ out' = Collect(out, r.output)
  /\ UNCHANGED <<env, mode, target, cursor, feed_len>>

\* One turn of the loop of test_decoder_overfeed: feed all that remains of
\* the stream, stop at consumed 0, else drop the consumed cells.
OverStep ==
  /\ mode = "over"
  /\ pc = "run"
  /\ LET input == SubSeq(stream, cursor + 1, Len(stream))
         r == feed(header_hash, header, position, stack, input)
     IN /\ DoFeed(input)
        /\ pc' = IF r.res # "Ok" THEN "failed"
                 ELSE IF r.consumed = 0 THEN "done" ELSE "run"
        /\ out' = Collect(out, r.output)
        /\ cursor' = cursor + r.consumed
  /\ UNCHANGED <<env, mode, target, feed_len>>

\* One turn of the loop of test_decoder_feed_by_ones: feed the first
\* feed_len cells that remain; one more on ShortInput; on success drop the
\* consumed cells and start again from 0.
OnesStep ==
  /\ mode = "ones"
  /\ pc = "run"
  /\ IF cursor + feed_len > Len(stream)
     THEN /\ pc' = "panic"
          /\ UNCHANGED <<dec, out, last, trusted, cursor, feed_len>>
     ELSE LET input == SubSeq(stream, cursor + 1, cursor + feed_len)
              r == feed(header_hash, header, position, stack, input)
          IN /\ DoFeed(input)
             /\ pc' = IF r.res = "Ok" THEN (IF r.consumed = 0 THEN "done" ELSE "run")
                      ELSE IF r.res = "ShortInput" THEN "run" ELSE "failed"
             /\ out' = Collect(out, r.output)
             /\ cursor' = cursor + r.consumed
             /\ feed_len' = IF r.res = "ShortInput" THEN feed_len + 1
                            ELSE IF r.res = "Ok" /\ r.consumed # 0 THEN 0
                            ELSE feed_len
  /\ UNCHANGED <<env, mode, target>>

Next ==
  \/ \E p \in Positions : Seek(p)
  \/ \E off \in 0 .. HEADER_SIZE + encoded_len(MaxLen), n \in 0 .. MaxFeed, k \in 0 .. MaxFeed :
       Feed(off, n, k)
  \/ \E p \in Positions : SeekDrain(p)
  \/ ExactStep
  \/ OverStep
  \/ OnesStep

Spec == Init /\ [][Next]_vars

\* The loop of test_decoder_feed_by_ones alone, running until it breaks: the
\* test is one thread that keeps taking the turns of its loop.
OnesInit == Init /\ mode = "ones"

OnesSpec == OnesInit /\ [][OnesStep]_vars /\ WF_vars(OnesStep)

RECURSIVE exact_drive(_, _, _, _, _, _)
\* What the loop of test_decoder collects from the decoder state given, in
\* at most `turns` turns.
exact_drive(hh, hdr, pos, stk, strm, turns) ==
  LET nd == needed(hdr, pos, stk)
      r == feed(hh, hdr, pos, stk, SubSeq(strm, nd.offset + 1, nd.offset + nd.size))
  IN IF nd.size = 0 \/ turns = 0 \/ r.res # "Ok" THEN <<>>
     ELSE Collect(<<>>, r.output)
            \o exact_drive(hh, r.header, r.position, r.stack, strm, turns - 1)

RECURSIVE exact_turns(_, _, _, _, _, _)
\* The number of feeds the loop of test_decoder makes from the decoder state
\* given until needed() reports size 0; -1 when a feed fails, when the range
\* needed() asks for is not in the stream, or when `turns` feeds do not
\* reach size 0.
exact_turns(hh, hdr, pos, stk, strm, turns) ==
  LET nd == needed(hdr, pos, stk)
      r == feed(hh, hdr, pos, stk, SubSeq(strm, nd.offset + 1, nd.offset + nd.size))
  IN IF nd.size = 0 THEN 0
     ELSE IF turns = 0 \/ nd.offset + nd.size > Len(strm) \/ r.res # "Ok" THEN -1
     ELSE LET rest == exact_turns(hh, r.header, r.position, r.stack, strm, turns - 1)
          IN IF rest < 0 THEN -1 ELSE rest + 1

\* ------------------------------------------------------------ the claims

\* Whether a is a prefix of b.
IsPrefix(a, b) == Len(a) <= Len(b) /\ a = SubSeq(b, 1, Len(a))

\* A step that brings the loop nearer its end: the header is parsed, or
\* position grows, or the stack grows at the same position.
Advances ==
  \/ header = None /\ header' # None
  \/ header' = header /\ position' > position
  \/ header' = header /\ position' = position /\ Len(stack') > Len(stack)

\* Position and stack depth are bounded by the content length.
Bounded == position <= Len(content) /\ Len(stack) <= Len(content)

\* C1: feed returns output only from a call made in the Chunk state whose
\* cells hashed, in that call, to the digest of the current region, a digest
\* handed on from header_hash through verified records; the header region
\* and every region on the stack carry such digests; no failing feed and no
\* feed in another state returns output.
C1_OutputOnlyVerified ==
  /\ (last.op = "feed" /\ last.output # None)
       => /\ last.kind = "Chunk"
          /\ last.res = "Ok"
          /\ last.verified
          /\ last.anchored
  /\ header # None => header[1].hash \in trusted
  /\ \A i \in 1 .. Len(stack) :
       stack[i].left.hash \in trusted /\ stack[i].right.hash \in trusted

\* C1 witness: the free driver, after tampered feeds were refused, got the
\* tail of a chunk two nodes down the tree.
C1_Witness ==
  /\ mode = "free"
  /\ last.op = "feed"
  /\ last.kind = "Chunk"
  /\ last.output # None
  /\ Cardinality(trusted) >= 4

\* The state part of C2.
C2_Inv ==
  mode = "exact" =>
    /\ pc \in {"run", "done"}
    /\ last.res = "Ok"
    /\ Bounded
    /\ IsPrefix(out, Cells(content))
    /\ (pc = "done" => out = Cells(content))

\* C2: the needed()/feed() loop on a fresh decoder and a well-formed
\* encoding never gets an error, collects the content in order, has
\* collected all of it when needed() reports size 0, and every turn of it
\* brings it nearer that end.
C2_RoundTrip ==
  /\ []C2_Inv
  /\ [][(mode = "exact" /\ pc = "run" /\ pc' = "run") => Advances]_vars

\* C2 witness: the loop ended on a content of three chunks.
C2_Witness ==
  /\ mode = "exact"
  /\ pc = "done"
  /\ Len(content) > 2 * CHUNK_SIZE
  /\ out = Cells(content)

\* The state part of C3.
C3_Inv ==
  mode = "seek" =>
    /\ pc \in {"run", "done"}
    /\ last.res = "Ok"
    /\ Bounded
    /\ IsPrefix(out, Cells(SubSeq(content, target + 1, Len(content))))
    /\ (pc = "done" => out = Cells(SubSeq(content, target + 1, Len(content))))

\* C3: seek(p) with p <= L, on a fresh decoder or after any feeds and
\* seeks, and then the needed()/feed() loop: no error, every turn brings the
\* loop nearer its end, and the output collected when needed() reports size
\* 0 is content[p .. L].
C3_SeekDrain ==
  /\ []C3_Inv
  /\ [][(mode = "seek" /\ pc = "run" /\ pc' = "run") => Advances]_vars

\* C3 witness: a drain from the middle of a chunk ended, started with nodes
\* on the stack that were verified before the seek.
C3_Witness ==
  /\ mode = "seek"
  /\ pc = "done"
  /\ target % CHUNK_SIZE = 1
  /\ target < Len(content)
  /\ Len(out) > CHUNK_SIZE

\* C4: a feed that returns an error leaves header, position and stack as
\* they were.
C4_ErrorNoMutation ==
  [][(last'.op = "feed" /\ last'.res # "Ok") => UNCHANGED dec]_vars

\* C4 witness: a node record with a flipped cell was refused with nodes
\* already on the stack.
C4_Witness ==
  /\ last.op = "feed"
  /\ last.res = "HashMismatch"
  /\ last.kind = "Node"
  /\ stack # <<>>

\* The state part of C5.
C5_Inv ==
  mode = "flip" =>
    /\ pc \in {"run", "failed"}
    /\ Bounded
    /\ IsPrefix(out, Cells(content))
    /\ (pc = "run" => last.res = "Ok")
    /\ (pc = "run" => needed(header, position, stack).size # 0)
    /\ (pc = "run" /\ last.op = "feed"
          => flipped > last.need.offset + last.need.size)
    /\ (pc = "failed"
          => /\ last.res = "HashMismatch"
             /\ flipped \in last.need.offset + 1 .. last.need.offset + last.need.size)

\* C5: with one cell of the stream flipped, the needed()/feed() loop never
\* completes; every feed succeeds, and brings the loop nearer the flipped
\* cell, until the one whose range covers the flipped cell, which fails with
\* HashMismatch; what was collected before is a prefix of the content.
C5_TamperDetected ==
  /\ []C5_Inv
  /\ [][(mode = "flip" /\ pc = "run" /\ pc' = "run") => Advances]_vars

\* C5 witness: the flipped cell was in the last chunk, and the loop failed
\* there after collecting everything before it.
C5_Witness ==
  /\ mode = "flip"
  /\ pc = "failed"
  /\ last.kind = "Chunk"
  /\ Len(out) > CHUNK_SIZE
  /\ flipped = Len(stream)

\* C6 as stated: whenever the stack is non-empty, position lies within the
\* span of the top node, also after the last chunk and after a seek at or
\* past the header end.
C6_Original ==
  stack # <<>> => node_contains(stack[Len(stack)], position)

\* C6 as amended: whenever the stack is non-empty and position is below
\* header.end, position lies within the left or the right child of the top
\* node.
C6_StackInvariant ==
  (stack # <<>> /\ header # None /\ position < header[1].end)
    => \/ contains(stack[Len(stack)].left, position)
       \/ contains(stack[Len(stack)].right, position)

\* C6 witness: a seek from below the left node into the right child of the
\* root popped the left node and kept the root.
C6_Witness ==
  /\ last.op = "seek"
  /\ Len(stack) = 1
  /\ Cardinality(trusted) >= 4
  /\ contains(stack[1].right, position)

\* C7: in every state and for every buffer, a successful feed consumes the
\* size needed() reported, and a buffer longer than that size gives what its
\* first size cells alone give: the same consumed count, output and state.
C7_ConsumedIsNeeded ==
  \A off \in 0 .. Len(stream), n \in 0 .. MaxFeed, k \in 0 .. MaxFeed :
    (off + n <= Len(stream) /\ k <= n) =>
      LET input == Buffer(off, n, k)
          nd == needed(header, position, stack)
          r == feed(header_hash, header, position, stack, input)
      IN r.res = "Ok" =>
           /\ r.consumed = nd.size
           /\ r = feed(header_hash, header, position, stack,
                       SubSeq(input, 1, nd.size))

\* C7 witness: a chunk feed of a buffer longer than the chunk succeeded and
\* consumed the chunk's length.
C7_Witness ==
  /\ last.op = "feed"
  /\ last.res = "Ok"
  /\ last.kind = "Chunk"
  /\ last.buflen > last.need.size
  /\ last.consumed = last.need.size
  /\ position > CHUNK_SIZE

\* The first half of C8: the overfeed loop never gets an error and has
\* collected the whole content when it stops.
C8_Overfeed ==
  mode = "over" =>
    /\ pc \in {"run", "done"}
    /\ last.res = "Ok"
    /\ cursor <= Len(stream)
    /\ IsPrefix(out, Cells(content))
    /\ (pc = "done" => out = Cells(content) /\ cursor = Len(stream))

\* C8 as stated: the overfeed loop is correct, and before each of its feeds
\* the offset needed() reports is the sum of the consumed counts so far.
C8_Original ==
  /\ C8_Overfeed
  /\ (mode = "over" /\ pc = "run")
       => needed(header, position, stack).offset = cursor

\* C8 as amended: the overfeed loop is correct, and before each of its feeds
\* made in a state other than Eof the offset needed() reports is the sum of
\* the consumed counts so far.
C8_OverfeedOffsets ==
  /\ C8_Overfeed
  /\ (mode = "over" /\ pc = "run" /\ state(header, position, stack).kind # "Eof")
       => needed(header, position, stack).offset = cursor

\* C8 witness: the overfeed loop stopped on a content of three chunks.
C8_Witness ==
  /\ mode = "over"
  /\ pc = "done"
  /\ Len(content) > 2 * CHUNK_SIZE
  /\ cursor = Len(stream)

\* The state part of C9.
C9_Inv ==
  mode = "ones" =>
    /\ pc \in {"run", "done"}
    /\ last.res \in {"Ok", "ShortInput"}
    /\ (pc = "done" =>
          out = exact_drive(header_hash, None, 0, <<>>, stream, Len(stream) + 1))

\* C9: the loop that feeds a prefix grown by one cell on each ShortInput
\* gets no other error, eventually gets consumed 0, and has then collected
\* what the loop feeding exactly needed() collects.
C9_FeedByOnes ==
  /\ []C9_Inv
  /\ (mode = "ones" ~> pc = "done")

\* C9 witness: the growing loop stopped on a content of three chunks, after
\* ShortInput results.
C9_Witness ==
  /\ mode = "ones"
  /\ pc = "done"
  /\ Len(content) > 2 * CHUNK_SIZE
  /\ out = Cells(content)

\* C10: the size needed() reports is zero exactly when the header is parsed
\* and position >= header.end; it is positive in NoHeader, Node and Chunk.
C10_NeededZeroIffEof ==
  LET nd == needed(header, position, stack)
  IN /\ nd.size = 0 <=> (header # None /\ position >= header[1].end)
     /\ state(header, position, stack).kind \in {"NoHeader", "Node", "Chunk"}
          => nd.size > 0

\* C10 witness: needed() reports size 0 after the last chunk was fed, the
\* stack still holding the root node.
C10_Witness ==
  /\ header # None
  /\ position = header[1].end
  /\ stack # <<>>
  /\ last.op = "feed"
  /\ needed(header, position, stack).size = 0

\* The state part of C11: in Eof every buffer is answered Ok, consumed 0, no
\* output, and nothing changes.
C11_Inv ==
  state(header, position, stack).kind = "Eof" =>
    \A input \in Buffers :
      feed(header_hash, header, position, stack, input)
        = [res |-> "Ok", consumed |-> 0, output |-> None,
           header |-> header, position |-> position, stack |-> stack]

\* C11: once in Eof every feed returns Ok with consumed 0 and no output and
\* changes nothing, whatever the buffer; the decoder leaves Eof only by a
\* seek below header.end, and then resolves to the Chunk or Node whose
\* region contains the position.
C11_EofTerminal ==
  /\ []C11_Inv
  /\ [][(state(header, position, stack).kind = "Eof"
           /\ state(header', position', stack').kind # "Eof")
          => /\ last'.op = "seek"
             /\ header' = header
             /\ position' < header[1].end
             /\ state(header', position', stack').kind \in {"Chunk", "Node"}
             /\ contains(state(header', position', stack').region, position')]_vars

\* C11 witness: a seek brought the decoder back from Eof into a chunk under
\* nodes that were still on the stack.
C11_Witness ==
  /\ last.op = "seek"
  /\ last.kind = "Eof"
  /\ state(header, position, stack).kind = "Chunk"
  /\ Len(stack) = 2

\* C12 as stated: every feed either returns an error and changes nothing,
\* or returns Ok and changes header, position or stack or returns output.
C12_Original ==
  \A input \in Buffers :
    LET r == feed(header_hash, header, position, stack, input)
    IN IF r.res # "Ok"
       THEN <<r.header, r.position, r.stack>> = dec /\ r.output = None
       ELSE <<r.header, r.position, r.stack>> # dec \/ r.output # None

\* C12 as amended: every feed either returns an error and changes nothing,
\* or returns Ok and, unless the decoder is in Eof, changes header, position
\* or stack or returns output.
C12_AdvanceOrError ==
  \A input \in Buffers :
    LET r == feed(header_hash, header, position, stack, input)
    IN IF r.res # "Ok"
       THEN <<r.header, r.position, r.stack>> = dec /\ r.output = None
       ELSE \/ state(header, position, stack).kind = "Eof"
            \/ <<r.header, r.position, r.stack>> # dec
            \/ r.output # None

\* C12 witness: a header feed succeeded, with no output, on a content whose
\* header region is one chunk.
C12_Witness ==
  /\ last.op = "feed"
  /\ last.kind = "NoHeader"
  /\ last.res = "Ok"
  /\ last.output = None
  /\ state(header, position, stack).kind = "Chunk"

\* The nodes of stk whose combined span contains pos, in order.
Containing(stk, pos) == SelectSeq(stk, LAMBDA node : node_contains(node, pos))

\* C13: with the header parsed and p < header.end, seek(p) leaves as stack
\* a prefix of the stack before, made of exactly the nodes whose span
\* contains p; nothing is pushed, and the bottom node, if any, stays.
C13_SeekKeepsContaining ==
  \A p \in Positions :
    (header # None /\ p < header[1].end) =>
      LET sk == seek(header, stack, p)
      IN /\ sk.position = p
         /\ IsPrefix(sk.stack, stack)
         /\ sk.stack = Containing(stack, p)
         /\ (stack # <<>> => sk.stack # <<>> /\ sk.stack[1] = stack[1])

\* C13 witness: a seek from the second chunk back to the first kept both
\* nodes of the stack.
C13_Witness ==
  /\ last.op = "seek"
  /\ last.kind = "Chunk"
  /\ Len(stack) = 2
  /\ position < CHUNK_SIZE
  /\ Containing(stack, CHUNK_SIZE * 2) # stack

\* The state part of C14: seek(p) before the header is parsed, or with
\* p >= header.end, sets position to p and leaves the stack as it was.
C14_Inv ==
  \A p \in Positions :
    (header = None \/ p >= header[1].end) =>
      seek(header, stack, p) = [position |-> p, stack |-> stack]

\* C14: seek(p) before the header is parsed, or with p >= header.end, sets
\* position to p and leaves the stack as it was; no seek changes header or
\* header_hash.
C14_SeekFrame ==
  /\ []C14_Inv
  /\ [][last'.op = "seek" => (header' = header /\ header_hash' = header_hash)]_vars

\* C14 witness: a seek to header.end itself, made in the middle of the
\* tree, left both nodes on the stack.
C14_Witness ==
  /\ last.op = "seek"
  /\ last.kind \in {"Chunk", "Node"}
  /\ header # None
  /\ position = header[1].end
  /\ Len(stack) = 2

\* C15: a successful feed in Chunk(region) consumes len(region), returns
\* the verified cells from index position - region.start to the end, that is
\* region.end - position of them, and leaves position at region.end.
C15_ChunkFeed ==
  LET s == state(header, position, stack)
  IN s.kind = "Chunk" =>
       \A input \in Buffers :
         LET r == feed(header_hash, header, position, stack, input)
         IN r.res = "Ok" =>
              /\ Hash(SubSeq(input, 1, len(s.region))) = s.region.hash
              /\ r.consumed = len(s.region)
              /\ r.output = Some(SubSeq(input, position - s.region.start + 1,
                                        len(s.region)))
              /\ Len(r.output[1]) = s.region.end - position
              /\ r.position = s.region.end
              /\ r.header = header

\* C15 witness: after a seek into the middle of a chunk the feed consumed
\* the whole chunk and returned only its tail.
C15_Witness ==
  /\ last.op = "feed"
  /\ last.kind = "Chunk"
  /\ last.res = "Ok"
  /\ last.output # None
  /\ last.consumed = CHUNK_SIZE
  /\ Len(last.output[1]) = 1

\* C16: whenever the decoder resolves to Chunk(r) or Node(r), r is the
\* header region (empty stack) or a child of the top node, and
\* r.start <= position < r.end, so the chunk offset is within the chunk; no
\* feed ever hit an offset outside it.
C16_RegionContainsPosition ==
  LET s == state(header, position, stack)
  IN /\ last.res # "Panic"
     /\ s.kind \in {"Chunk", "Node"} =>
          /\ s.region.start <= position
          /\ position < s.region.end
          /\ IF stack = <<>> THEN s.region = header[1]
             ELSE s.region \in {stack[Len(stack)].left, stack[Len(stack)].right}
          /\ (s.kind = "Chunk" => position - s.region.start < len(s.region))

\* C16 witness: after a seek the decoder resolves to the right child of the
\* top node, a chunk, with position past its start.
C16_Witness ==
  /\ last.op = "seek"
  /\ stack # <<>>
  /\ state(header, position, stack).kind = "Chunk"
  /\ state(header, position, stack).region = stack[Len(stack)].right
  /\ position > stack[Len(stack)].right.start

\* The state part of C17: no feed moves position back; a failing feed and a
\* feed in NoHeader, Node or Eof leave it alone; a successful Chunk feed
\* moves it forward, to the end of the chunk.
C17_Inv ==
  LET s == state(header, position, stack)
  IN \A input \in Buffers :
       LET r == feed(header_hash, header, position, stack, input)
       IN IF s.kind = "Chunk" /\ r.res = "Ok"
          THEN r.position = s.region.end /\ r.position > position
          ELSE r.position = position

\* C17: in a run without external seeks position never decreases: only a
\* successful Chunk feed moves it, strictly forward, to the end of the
\* chunk.
C17_PositionMonotone ==
  /\ []C17_Inv
  /\ [][mode # "free" => position' >= position]_vars

\* C17 witness: in the overfeed loop, which never seeks, a chunk feed moved
\* position from one chunk end to the next.
C17_Witness ==
  /\ mode = "over"
  /\ last.op = "feed"
  /\ last.kind = "Chunk"
  /\ last.res = "Ok"
  /\ position = 2 * CHUNK_SIZE

\* C18: over a well-formed encoding, from every reachable state the loop
\* that feeds exactly the range needed() asks for reaches needed() size 0
\* in at most as many feeds as the stream has cells, each feed succeeding.
C18_DrainTerminates ==
  flipped = 0 =>
    exact_turns(header_hash, header, position, stack, stream, Len(stream))
      \in 0 .. Len(stream)

\* C18 witness: a state reached by a seek, with the header parsed and the
\* stack empty, from which the loop needs a node feed, a second node feed
\* and then chunk feeds to reach size 0.
C18_Witness ==
  /\ mode = "free"
  /\ last.op = "seek"
  /\ header # None
  /\ exact_turns(header_hash, header, position, stack, stream, Len(stream)) >= 4

\* Does the node span exactly the region given?
Spans(node, region) ==
  node.left.start = region.start /\ node.right.end = region.end

\* C19: the stack is a path from the root: it is empty while the header is
\* absent, its bottom node spans exactly [0, header.end), and every node
\* above the bottom spans exactly the left or the right child of the node
\* directly below it, also at Eof and after seeks past the end.
C19_StackIsPath ==
  /\ header = None => stack = <<>>
  /\ stack # <<>> =>
       /\ header[1].start = 0
       /\ Spans(stack[1], header[1])
  /\ \A i \in 2 .. Len(stack) :
       \/ Spans(stack[i], stack[i - 1].left)
       \/ Spans(stack[i], stack[i - 1].right)

\* C19 witness: a seek past the end of the content left a two-node path,
\* root and its left child, on the stack.
C19_Witness ==
  /\ last.op = "seek"
  /\ header # None
  /\ position > header[1].end
  /\ Len(stack) = 2
  /\ Spans(stack[2], stack[1].left)

\* C20: in Node(region), for every buffer, a successful feed pushes exactly
\* one node onto the unchanged stack, leaves position and header alone,
\* consumes NODE_SIZE and returns no output; the decoder then resolves to
\* Chunk or Node with a region that is a child of the pushed node and is
\* strictly shorter than region.
C20_NodeFeed ==
  LET s == state(header, position, stack)
  IN s.kind = "Node" =>
       \A input \in Buffers :
         LET r == feed(header_hash, header, position, stack, input)
             t == state(r.header, r.position, r.stack)
         IN r.res = "Ok" =>
              /\ Len(r.stack) = Len(stack) + 1
              /\ SubSeq(r.stack, 1, Len(stack)) = stack
              /\ Spans(r.stack[Len(r.stack)], s.region)
              /\ r.position = position
              /\ r.header = header
              /\ r.consumed = NODE_SIZE
              /\ r.output = None
              /\ t.kind \in {"Chunk", "Node"}
              /\ t.region \in {r.stack[Len(r.stack)].left,
                               r.stack[Len(r.stack)].right}
              /\ len(t.region) < len(s.region)

\* C20 witness: a node feed pushed the root node and the decoder resolves
\* to another Node state, for the left child of the root.
C20_Witness ==
  /\ last.op = "feed"
  /\ last.kind = "Node"
  /\ last.res = "Ok"
  /\ last.consumed = NODE_SIZE
  /\ Len(stack) = 1
  /\ state(header, position, stack).kind = "Node"
  /\ state(header, position, stack).region = stack[1].left

====
